---- MODULE Spec2Model ----
(***************************************************************************)
(* The MK66 memory protection unit driver (chips/mk66/src/mpu.rs).         *)
(*                                                                         *)
(* State: one MK66Config per process, the memory-mapped register block,    *)
(* the build's overflow-check setting, whether the kernel has panicked,    *)
(* and the last call made with its arguments and its result.               *)
(*                                                                         *)
(* u32 values are modelled as naturals below Word = 2^WordBits.  TLC's     *)
(* integers are 32-bit signed, so the width is scaled; Word stays a        *)
(* multiple of 32 and every addition is reduced modulo Word exactly where  *)
(* the code's u32 addition wraps.                                          *)
(***************************************************************************)
EXTENDS Integers, FiniteSets, Sequences, TLC

VARIABLES configs, regs, overflow_checks, panicked, last

vars == <<configs, regs, overflow_checks, panicked, last>>

(***************************************************************************)
(* Bounds of the model.                                                    *)
(***************************************************************************)
\* Width of the modelled machine word (u32 in the source).
WordBits == 24

\* Ordinary regions a process loads in the register-level specification.
MaxRegionsHw == 1

\* Ordinary regions a process loads in the arithmetic specification.
MaxRegionsArith == 1

Word == 2 ^ WordBits

Wrap(x) == x % Word

Procs == {"p1", "p2"}

(***************************************************************************)
(* Option<T>: None is the empty sequence, Some(v) the sequence <<v>>.      *)
(***************************************************************************)
None == <<>>

Some(v) == <<v>>

IsSome(o) == o # <<>>

Unwrap(o) == o[1]

(***************************************************************************)
(* Program constants.                                                      *)
(***************************************************************************)
APP_MEMORY_INDEX == 1

\* regions: [Option<Region>; 11]
NumRegions == 11

\* rgds: [MpuRegionDescriptor; 12], rgdaacs: [MpuAlternateAccessControl; 12]
NumDescriptors == 12

\* "Regions must be aligned to 32 bytes"
Align == 32

\* SRTADDR OFFSET(5), ENDADDR OFFSET(5)
AddrShift == 5

\* M0SM field values
ReadWriteExecute == 0

SameAsUserMode == 3

Permissions == {"ReadWriteExecute", "ReadWriteOnly", "ReadExecuteOnly",
                "ReadOnly", "ExecuteOnly"}

(***************************************************************************)
(* Region::new: the permission is encoded, start and end are stored as     *)
(* given.                                                                  *)
(***************************************************************************)
PermissionBits(permissions) ==
    CASE permissions = "ReadWriteExecute" -> 7
      [] permissions = "ReadWriteOnly"    -> 6
      [] permissions = "ReadExecuteOnly"  -> 5
      [] permissions = "ReadOnly"         -> 4
      [] permissions = "ExecuteOnly"      -> 1

RegionNew(start, end, permissions) ==
    [start |-> start, end |-> end, permissions |-> PermissionBits(permissions)]

(***************************************************************************)
(* MK66Config::default and MK66Config::available_region_index.             *)
(***************************************************************************)
DefaultConfig == [memory |-> None, regions |-> [i \in 0..(NumRegions - 1) |-> None]]

\* The loop of available_region_index from `index` on, over `len` slots,
\* skipping the slots in `skip`.
RECURSIVE ScanFrom(_, _, _, _)
ScanFrom(config, index, len, skip) ==
    IF index >= len THEN None
    ELSE IF index \in skip THEN ScanFrom(config, index + 1, len, skip)
    ELSE IF config.regions[index] = None THEN Some(index)
    ELSE ScanFrom(config, index + 1, len, skip)

\* Faulty variant: the scan does not skip the application-memory index.
available_region_index_noskip(config) == ScanFrom(config, 0, NumRegions, {})

\* Faulty variant: the highest free index is returned instead of the lowest.
available_region_index_last(config) ==
    LET free == { i \in (0 .. NumRegions - 1) \ {APP_MEMORY_INDEX} :
                    config.regions[i] = None }
    IN  IF free = {} THEN None
        ELSE Some(CHOOSE i \in free : \A j \in free : j <= i)

\* Faulty variant: the scan stops one slot early.
available_region_index_short(config) ==
    ScanFrom(config, 0, NumRegions - 1, {APP_MEMORY_INDEX})

available_region_index(config) == ScanFrom(config, 0, NumRegions, {APP_MEMORY_INDEX})

(***************************************************************************)
(* round_up_to_nearest_multiple, in u32 arithmetic: x + y is evaluated     *)
(* first and may overflow.                                                 *)
(***************************************************************************)
\* Faulty variant: y is added even when x is already a multiple of y.
round_up_to_nearest_multiple_always(x, y) == Wrap(Wrap(x + y) - (x % y))

round_up_to_nearest_multiple(x, y) ==
    IF x % y = 0 THEN x ELSE Wrap(Wrap(x + y) - (x % y))

round_up_overflows(x, y) == x % y # 0 /\ x + y >= Word

(***************************************************************************)
(* allocate_region.  Each operation yields a record: ovf (some u32         *)
(* addition on its path overflowed), outcome and val (what it returns),    *)
(* config (the configuration it leaves).                                   *)
(***************************************************************************)
\* Faulty variant: the requested size is used as given.
region_size_unrounded(min_region_size) == min_region_size

\* let region_size = round_up_to_nearest_multiple(min_region_size as u32, 32);
region_size_of(min_region_size) == round_up_to_nearest_multiple(min_region_size, Align)

\* Faulty variant: the bound is taken from the rounded start.
unallocated_memory_end_rounded(unallocated_start, unallocated_size) ==
    Wrap(round_up_to_nearest_multiple(unallocated_start, Align) + unallocated_size)

\* (unallocated_memory_start as u32) + (unallocated_memory_size as u32)
unallocated_memory_end_of(unallocated_start, unallocated_size) ==
    Wrap(unallocated_start + unallocated_size)

\* Faulty variant: the Region is stored before the span is checked, so a
\* call that fails for lack of space still consumes a slot.
allocate_region_store_first(config, a) ==
    LET region_start == round_up_to_nearest_multiple(a.start, Align)
        region_size == region_size_of(a.min)
        region_end == Wrap(region_start + region_size)
        unallocated_memory_end == unallocated_memory_end_of(a.start, a.size)
        region == RegionNew(region_start, region_end, a.perm)
        index == available_region_index(config)
    IN  IF index = None
        THEN [ovf |-> FALSE, outcome |-> "None", val |-> <<>>, config |-> config]
        ELSE LET stored == [config EXCEPT !.regions[Unwrap(index)] = Some(region)]
             IN  IF region_end > unallocated_memory_end
                 THEN [ovf |-> FALSE, outcome |-> "None", val |-> <<>>,
                       config |-> stored]
                 ELSE [ovf |-> FALSE, outcome |-> "Some",
                       val |-> <<region_start, region_size>>, config |-> stored]

allocate_region(config, a) ==
    LET region_start == round_up_to_nearest_multiple(a.start, Align)
        region_size == region_size_of(a.min)
        region_end == Wrap(region_start + region_size)
        unallocated_memory_end == unallocated_memory_end_of(a.start, a.size)
        ovf == \/ round_up_overflows(a.start, Align)
               \/ round_up_overflows(a.min, Align)
               \/ region_start + region_size >= Word
               \/ a.start + a.size >= Word
        region == RegionNew(region_start, region_end, a.perm)
        index == available_region_index(config)
    IN  IF region_end > unallocated_memory_end
        THEN [ovf |-> ovf, outcome |-> "None", val |-> <<>>, config |-> config]
        ELSE IF index = None
        THEN [ovf |-> ovf, outcome |-> "None", val |-> <<>>, config |-> config]
        ELSE [ovf |-> ovf, outcome |-> "Some", val |-> <<region_start, region_size>>,
              config |-> [config EXCEPT !.regions[Unwrap(index)] = Some(region)]]

(***************************************************************************)
(* allocate_app_memory_region.                                             *)
(***************************************************************************)
\* Faulty variant: the initial sizes are ignored.
initial_memory_size_min_only(min_memory_size, initial_app_size, initial_kernel_size) ==
    min_memory_size

\* let mut memory_size = { if min < app + kernel { app + kernel } else { min } };
initial_memory_size(min_memory_size, initial_app_size, initial_kernel_size) ==
    IF min_memory_size < Wrap(initial_app_size + initial_kernel_size)
    THEN Wrap(initial_app_size + initial_kernel_size)
    ELSE min_memory_size

\* Whether the bump of memory_size is taken.
needs_bump(memory_size, region_size, initial_kernel_memory_size) ==
    Wrap(region_size + initial_kernel_memory_size) > memory_size

\* Faulty variant: memory_size is never bumped.
bumped_memory_size_never(memory_size, region_size, initial_kernel_memory_size) ==
    memory_size

\* if region_size + kernel > memory_size { memory_size += 32; }
bumped_memory_size(memory_size, region_size, initial_kernel_memory_size) ==
    IF needs_bump(memory_size, region_size, initial_kernel_memory_size)
    THEN Wrap(memory_size + 32)
    ELSE memory_size

\* Faulty variant: the Region is stored before the span is checked, so a
\* failing call leaves it in the table.
allocate_app_memory_region_store_first(config, a) ==
    LET memory_size0 == initial_memory_size(a.min, a.app, a.kernel)
        memory_size1 == round_up_to_nearest_multiple(memory_size0, Align)
        memory_start == round_up_to_nearest_multiple(a.start, Align)
        region_size == round_up_to_nearest_multiple(a.app, Align)
        region_end == Wrap(memory_start + region_size)
        memory_size == bumped_memory_size(memory_size1, region_size, a.kernel)
        stored == [config EXCEPT !.regions[APP_MEMORY_INDEX] =
                     Some(RegionNew(memory_start, region_end, a.perm))]
    IN  IF Wrap(memory_start + memory_size) > unallocated_memory_end_of(a.start, a.size)
        THEN [ovf |-> FALSE, outcome |-> "None", val |-> <<>>, config |-> stored]
        ELSE [ovf |-> FALSE, outcome |-> "Some", val |-> <<memory_start, memory_size>>,
              config |-> stored]

allocate_app_memory_region(config, a) ==
    LET memory_size0 == initial_memory_size(a.min, a.app, a.kernel)
        memory_size1 == round_up_to_nearest_multiple(memory_size0, Align)
        memory_start == round_up_to_nearest_multiple(a.start, Align)
        region_start == memory_start
        region_size == round_up_to_nearest_multiple(a.app, Align)
        region_end == Wrap(region_start + region_size)
        memory_size == bumped_memory_size(memory_size1, region_size, a.kernel)
        memory_end == Wrap(memory_start + memory_size)
        unallocated_memory_end == unallocated_memory_end_of(a.start, a.size)
        ovf == \/ a.app + a.kernel >= Word
               \/ round_up_overflows(memory_size0, Align)
               \/ round_up_overflows(a.start, Align)
               \/ round_up_overflows(a.app, Align)
               \/ region_start + region_size >= Word
               \/ region_size + a.kernel >= Word
               \/ /\ needs_bump(memory_size1, region_size, a.kernel)
                  /\ memory_size1 + 32 >= Word
               \/ memory_start + memory_size >= Word
               \/ a.start + a.size >= Word
        region == RegionNew(region_start, region_end, a.perm)
    IN  IF memory_end > unallocated_memory_end
        THEN [ovf |-> ovf, outcome |-> "None", val |-> <<>>, config |-> config]
        ELSE [ovf |-> ovf, outcome |-> "Some", val |-> <<memory_start, memory_size>>,
              config |-> [config EXCEPT !.regions[APP_MEMORY_INDEX] = Some(region)]]

(***************************************************************************)
(* update_app_memory_region.  config.memory is read here; no operation     *)
(* of the driver assigns it.                                               *)
(***************************************************************************)
\* Faulty variant: the start is taken from the stored Region and the new end
\* is not compared with the kernel break.
update_app_memory_region_unchecked(config, a) ==
    LET Err == [ovf |-> FALSE, outcome |-> "Err", val |-> <<>>, config |-> config]
    IN  IF config.regions[APP_MEMORY_INDEX] = None THEN Err
        ELSE LET region_start == Unwrap(config.regions[APP_MEMORY_INDEX]).start
                 region_end == round_up_to_nearest_multiple(a.app_break, Align)
                 region == RegionNew(region_start, region_end, a.perm)
             IN  [ovf |-> round_up_overflows(a.app_break, Align),
                  outcome |-> "Ok", val |-> <<>>,
                  config |-> [config EXCEPT
                                !.regions[APP_MEMORY_INDEX] = Some(region)]]

\* Faulty variant: a missing application-memory Region is created instead
\* of being reported.
update_app_memory_region_create(config, a) ==
    LET Err == [ovf |-> FALSE, outcome |-> "Err", val |-> <<>>, config |-> config]
        region_end == round_up_to_nearest_multiple(a.app_break, Align)
    IN  IF config.regions[APP_MEMORY_INDEX] = None
        THEN [ovf |-> round_up_overflows(a.app_break, Align),
              outcome |-> "Ok", val |-> <<>>,
              config |-> [config EXCEPT !.regions[APP_MEMORY_INDEX] =
                            Some(RegionNew(0, region_end, a.perm))]]
        ELSE Err

\* Faulty variant: app_break is taken as an increment of the stored end.
update_app_memory_region_sbrk(config, a) ==
    LET Err == [ovf |-> FALSE, outcome |-> "Err", val |-> <<>>, config |-> config]
    IN  IF config.regions[APP_MEMORY_INDEX] = None THEN Err
        ELSE LET stored == Unwrap(config.regions[APP_MEMORY_INDEX])
                 region_end == Wrap(stored.end
                                  + round_up_to_nearest_multiple(a.app_break, Align))
                 region == RegionNew(stored.start, region_end, a.perm)
             IN  IF region_end > a.kernel_break THEN Err
                 ELSE [ovf |-> FALSE, outcome |-> "Ok", val |-> <<>>,
                       config |-> [config EXCEPT
                                     !.regions[APP_MEMORY_INDEX] = Some(region)]]

update_app_memory_region(config, a) ==
    LET Err == [ovf |-> FALSE, outcome |-> "Err", val |-> <<>>, config |-> config]
    IN  IF config.regions[APP_MEMORY_INDEX] = None THEN Err
        ELSE IF config.memory = None THEN Err
        ELSE LET memory_start == Unwrap(config.memory)[1]
                 memory_end == Unwrap(config.memory)[2]
                 region_start == memory_start
                 region_end == round_up_to_nearest_multiple(a.app_break, Align)
                 region == RegionNew(region_start, region_end, a.perm)
             IN  IF memory_start % 32 # 0 \/ memory_end % 32 # 0 THEN Err
                 ELSE IF region_end > a.kernel_break
                 THEN [Err EXCEPT !.ovf = round_up_overflows(a.app_break, Align)]
                 ELSE [ovf |-> round_up_overflows(a.app_break, Align),
                       outcome |-> "Ok", val |-> <<>>,
                       config |-> [config EXCEPT
                                     !.regions[APP_MEMORY_INDEX] = Some(region)]]

(***************************************************************************)
(* The register block.  A register is a record of its bit fields; the bits *)
(* of word2 that belong to bus masters 1 to 7 are kept together as MX.     *)
(* write() replaces the whole register (fields not named become 0),        *)
(* modify() replaces the named field only.                                 *)
(***************************************************************************)
\* FieldValue: the value is masked to the width of the field.
AddrField(v) == v % (2 ^ (WordBits - AddrShift))

UserField(v) == v % 8

\* rgd_word0.write(SRTADDR.val(start)), rgd_word1.write(ENDADDR.val(end))
WriteWord0(start) == [SRTADDR |-> AddrField(start), low |-> 0]

WriteWord1(end) == [ENDADDR |-> AddrField(end), low |-> 0]

\* Faulty variant: the user field is written as full access.
WriteWord2_user_full(user) ==
    [M0UM |-> 7, M0SM |-> SameAsUserMode, M0PE |-> 0, MX |-> 0]

\* rgd_word2.write(M0SM::SameAsUserMode + M0UM.val(user))
WriteWord2(user) ==
    [M0UM |-> UserField(user), M0SM |-> SameAsUserMode, M0PE |-> 0, MX |-> 0]

\* rgd_word3.write(VLD::SET), rgd_word3.write(VLD::CLEAR)
WriteWord3(vld) == [PID |-> 0, PIDMASK |-> 0, VLD |-> vld]

\* Faulty variant: user mode keeps its access through descriptor 0.
ModifyRgdaac0_keep_user(w) == [w EXCEPT !.M0SM = ReadWriteExecute]

\* Faulty variant: the user field is inverted instead of cleared, so a second
\* flush undoes what the first one wrote.
ModifyRgdaac0_toggle(w) == [[w EXCEPT !.M0SM = ReadWriteExecute] EXCEPT !.M0UM = 7 - w.M0UM]

\* rgdaacs[0].0.modify(M0SM::ReadWriteExecute); rgdaacs[0].0.modify(M0UM::CLEAR)
ModifyRgdaac0(w) == [[w EXCEPT !.M0SM = ReadWriteExecute] EXCEPT !.M0UM = 0]

\* let region_num = index + 1;
RegionNum(index) == index + 1

\* Faulty variant: an absent region leaves its descriptor as it was.
WriteDescriptor_keep_absent(d, region) ==
    IF IsSome(region)
    THEN [word0 |-> WriteWord0(Unwrap(region).start \div (2 ^ AddrShift)),
          word1 |-> WriteWord1(Unwrap(region).end \div (2 ^ AddrShift)),
          word2 |-> WriteWord2(Unwrap(region).permissions),
          word3 |-> WriteWord3(1)]
    ELSE d

\* One iteration of the loop of configure_mpu, on descriptor d.
WriteDescriptor(d, region) ==
    IF IsSome(region)
    THEN [word0 |-> WriteWord0(Unwrap(region).start \div (2 ^ AddrShift)),
          word1 |-> WriteWord1(Unwrap(region).end \div (2 ^ AddrShift)),
          word2 |-> WriteWord2(Unwrap(region).permissions),
          word3 |-> WriteWord3(1)]
    ELSE [d EXCEPT !.word3 = WriteWord3(0)]

\* for (index, region) in config.regions.iter().enumerate() { ... }
RECURSIVE WriteRegions(_, _, _)
WriteRegions(rgds, config, index) ==
    IF index >= NumRegions THEN rgds
    ELSE WriteRegions(
           [rgds EXCEPT ![RegionNum(index)] =
              WriteDescriptor(rgds[RegionNum(index)], config.regions[index])],
           config, index + 1)

configure_mpu(r, config) ==
    [cesr |-> r.cesr,
     rgds |-> WriteRegions(r.rgds, config, 0),
     rgdaacs |-> [r.rgdaacs EXCEPT ![0] = ModifyRgdaac0(r.rgdaacs[0])]]

\* regs.cesr.modify(ControlErrorStatus::VLD::Enable / Disable)
\* Faulty variant: the register is written whole, which clears its other
\* fields.
enable_mpu_write(r) == [r EXCEPT !.cesr = [VLD |-> 1, NRGD |-> 0, HRL |-> 0, NSP |-> 0, SPERR |-> 0]]

enable_mpu(r) == [r EXCEPT !.cesr.VLD = 1]

disable_mpu(r) == [r EXCEPT !.cesr.VLD = 0]

(***************************************************************************)
(* Register states the driver may find when it first runs.  ResetRegs: as  *)
(* the comment in configure_mpu describes reset (descriptor 0 valid, full  *)
(* access for supervisor and user over the whole address space, the other  *)
(* descriptors invalid).  UsedRegs: every descriptor valid and every field *)
(* non-zero, as earlier software may have left the block.                  *)
(***************************************************************************)
ResetWord2 == [M0UM |-> 7, M0SM |-> 3, M0PE |-> 0, MX |-> 100319]

ResetRegs ==
    [cesr |-> [VLD |-> 1, NRGD |-> 1, HRL |-> 1, NSP |-> 5, SPERR |-> 0],
     rgds |-> [n \in 0..(NumDescriptors - 1) |->
                 IF n = 0
                 THEN [word0 |-> [SRTADDR |-> 0, low |-> 0],
                       word1 |-> [ENDADDR |-> 2 ^ (WordBits - AddrShift) - 1, low |-> 31],
                       word2 |-> ResetWord2,
                       word3 |-> [PID |-> 0, PIDMASK |-> 0, VLD |-> 1]]
                 ELSE [word0 |-> [SRTADDR |-> 0, low |-> 0],
                       word1 |-> [ENDADDR |-> 0, low |-> 31],
                       word2 |-> [M0UM |-> 0, M0SM |-> 0, M0PE |-> 0, MX |-> 0],
                       word3 |-> [PID |-> 0, PIDMASK |-> 0, VLD |-> 0]]],
     rgdaacs |-> [n \in 0..(NumDescriptors - 1) |->
                    IF n = 0 THEN ResetWord2
                    ELSE [M0UM |-> 0, M0SM |-> 0, M0PE |-> 0, MX |-> 0]]]

UsedRegs ==
    [cesr |-> [VLD |-> 0, NRGD |-> 1, HRL |-> 1, NSP |-> 5, SPERR |-> 3],
     rgds |-> [n \in 0..(NumDescriptors - 1) |->
                 [word0 |-> [SRTADDR |-> n + 1, low |-> 0],
                  word1 |-> [ENDADDR |-> n + 9, low |-> 31],
                  word2 |-> [M0UM |-> 7, M0SM |-> 1, M0PE |-> 1, MX |-> 100319],
                  word3 |-> [PID |-> 5, PIDMASK |-> 255, VLD |-> 1]]],
     rgdaacs |-> [n \in 0..(NumDescriptors - 1) |->
                    [M0UM |-> 7, M0SM |-> 3, M0PE |-> 1, MX |-> 100319]]]

InitialRegs == {ResetRegs, UsedRegs}

(***************************************************************************)
(* The operations as actions.  A u32 overflow panics in a build with       *)
(* overflow checks (panic_fmt never returns: nothing runs afterwards) and  *)
(* wraps in a build without them.                                          *)
(***************************************************************************)
Called(op, p, a, outcome, val) ==
    [op |-> op, proc |-> p, args |-> a, outcome |-> outcome, val |-> val]

Commit(op, p, a, r) ==
    IF overflow_checks /\ r.ovf
    THEN /\ panicked' = TRUE
         /\ last' = Called(op, p, a, "Panic", <<>>)
         /\ UNCHANGED <<configs, regs, overflow_checks>>
    ELSE /\ configs' = [configs EXCEPT ![p] = r.config]
         /\ last' = Called(op, p, a, r.outcome, r.val)
         /\ UNCHANGED <<regs, overflow_checks, panicked>>

AllocateRegion(p, a) ==
    /\ ~panicked
    /\ Commit("allocate_region", p, a, allocate_region(configs[p], a))

AllocateAppMemoryRegion(p, a) ==
    /\ ~panicked
    /\ Commit("allocate_app_memory_region", p, a,
              allocate_app_memory_region(configs[p], a))

UpdateAppMemoryRegion(p, a) ==
    /\ ~panicked
    /\ Commit("update_app_memory_region", p, a,
              update_app_memory_region(configs[p], a))

ConfigureMpu(p) ==
    /\ ~panicked
    /\ regs' = configure_mpu(regs, configs[p])
    /\ last' = Called("configure_mpu", p, <<>>, "Unit", <<>>)
    /\ UNCHANGED <<configs, overflow_checks, panicked>>

EnableMpu ==
    /\ ~panicked
    /\ regs' = enable_mpu(regs)
    /\ last' = Called("enable_mpu", "p1", <<>>, "Unit", <<>>)
    /\ UNCHANGED <<configs, overflow_checks, panicked>>

DisableMpu ==
    /\ ~panicked
    /\ regs' = disable_mpu(regs)
    /\ last' = Called("disable_mpu", "p1", <<>>, "Unit", <<>>)
    /\ UNCHANGED <<configs, overflow_checks, panicked>>

\* How many ordinary slots of a configuration hold a Region.
NumOrdinary(config) ==
    Cardinality({i \in (0..(NumRegions - 1)) \ {APP_MEMORY_INDEX} :
                   IsSome(config.regions[i])})

(***************************************************************************)
(* Spec: two processes are loaded and switched between; every operation    *)
(* of the driver, with the register block starting in either state.        *)
(***************************************************************************)
RegionArgs(start, size, min, perm) ==
    [start |-> start, size |-> size, min |-> min, perm |-> perm]

AppArgs(start, size, min, app, kernel, perm) ==
    [start |-> start, size |-> size, min |-> min, app |-> app, kernel |-> kernel,
     perm |-> perm]

UpdateArgs(app_break, kernel_break, perm) ==
    [app_break |-> app_break, kernel_break |-> kernel_break, perm |-> perm]

HwRegionArgs ==
    { RegionArgs(64, 64, 32, "ReadOnly"),
      RegionArgs(200, 128, 40, "ExecuteOnly") }

HwAppArgs ==
    { AppArgs(4096, 16384, 2048, 1024, 1024, "ReadWriteOnly"),
      AppArgs(8200, 4096, 0, 100, 60, "ReadExecuteOnly") }

HwUpdateArgs == { UpdateArgs(5120, 6144, "ReadWriteOnly") }

Init ==
    /\ configs = [p \in Procs |-> DefaultConfig]
    /\ regs \in InitialRegs
    /\ overflow_checks = FALSE
    /\ panicked = FALSE
    /\ last = Called("none", "p1", <<>>, "Unit", <<>>)

Next ==
    \/ \E p \in Procs : \E a \in HwRegionArgs :
          /\ NumOrdinary(configs[p]) < MaxRegionsHw
          /\ AllocateRegion(p, a)
    \/ \E p \in Procs : \E a \in HwAppArgs : AllocateAppMemoryRegion(p, a)
    \/ \E p \in Procs : \E a \in HwUpdateArgs : UpdateAppMemoryRegion(p, a)
    \/ \E p \in Procs : ConfigureMpu(p)
    \/ EnableMpu
    \/ DisableMpu

Spec == Init /\ [][Next]_vars

(***************************************************************************)
(* SpecArith: one process is loaded, with arguments around every boundary  *)
(* of the arithmetic: aligned and unaligned starts, exact fits, zero       *)
(* sizes, and spans that end at or beyond the top of the address space.    *)
(* Either build may run.                                                   *)
(***************************************************************************)
ArithRegionArgs ==
    { RegionArgs(start, size, min, "ReadOnly") :
        start \in {0, 16, Word - 16},
        size \in {32, 48, 64},
        min \in {0, 1, 32, 33} }

ArithAppArgs ==
    { AppArgs(start, size, min, app, kernel, "ReadWriteOnly") :
        start \in {0, 16},
        size \in {64, 96},
        min \in {0, 64},
        app \in {0, 1, 33, Word - 32},
        kernel \in {0, 31, 64} }
    \cup { AppArgs(Word - 16, 80, 0, 1, 0, "ReadWriteOnly") }

ArithUpdateArgs ==
    { UpdateArgs(app_break, kernel_break, "ReadExecuteOnly") :
        app_break \in {0, 33, 64}, kernel_break \in {32, 64} }

InitAlloc ==
    /\ configs = [p \in Procs |-> DefaultConfig]
    /\ regs = ResetRegs
    /\ overflow_checks \in BOOLEAN
    /\ panicked = FALSE
    /\ last = Called("none", "p1", <<>>, "Unit", <<>>)

NextArith ==
    \/ \E a \in ArithRegionArgs :
          /\ NumOrdinary(configs["p1"]) < MaxRegionsArith
          /\ AllocateRegion("p1", a)
    \/ \E a \in ArithAppArgs : AllocateAppMemoryRegion("p1", a)
    \/ \E a \in ArithUpdateArgs : UpdateAppMemoryRegion("p1", a)

SpecArith == InitAlloc /\ [][NextArith]_vars

(***************************************************************************)
(* SpecFill: one process allocates regions until its table is full and     *)
(* beyond, with spans that fit, that do not, and that overflow.            *)
(***************************************************************************)
FillRegionArgs ==
    { RegionArgs(0, 1048576, 32, "ReadOnly"),
      RegionArgs(4096, 64, 33, "ReadWriteExecute"),
      RegionArgs(0, 16, 32, "ReadOnly"),
      RegionArgs(Word - 16, 48, 32, "ReadOnly") }

FillAppArgs ==
    { AppArgs(4096, 16384, 2048, 1024, 1024, "ReadWriteOnly"),
      AppArgs(0, 32, 64, 32, 0, "ReadWriteOnly") }

FillUpdateArgs ==
    { UpdateArgs(5120, 6144, "ReadWriteOnly"),
      UpdateArgs(6144, 5120, "ReadWriteOnly") }

NextFill ==
    \/ \E a \in FillRegionArgs : AllocateRegion("p1", a)
    \/ \E a \in FillAppArgs : AllocateAppMemoryRegion("p1", a)
    \/ \E a \in FillUpdateArgs : UpdateAppMemoryRegion("p1", a)

SpecFill == InitAlloc /\ [][NextFill]_vars

(***************************************************************************)
(* SpecRound: round_up_to_nearest_multiple applied to small values, to     *)
(* values at the top of the u32 range, and to divisors that are and are    *)
(* not powers of two, in both builds.                                      *)
(***************************************************************************)
RoundArgs(x, y) == [x |-> x, y |-> y]

RoundXs == (0 .. 40) \cup ((Word - 40) .. (Word - 1))

RoundYs == {1, 2, 3, 4, 5, 7, 8, 32}

RoundUpToNearestMultiple(a) ==
    /\ ~panicked
    /\ Commit("round_up_to_nearest_multiple", "p1", a,
              [ovf |-> round_up_overflows(a.x, a.y),
               outcome |-> "Value",
               val |-> <<round_up_to_nearest_multiple(a.x, a.y)>>,
               config |-> configs["p1"]])

NextRound ==
    \E x \in RoundXs, y \in RoundYs : RoundUpToNearestMultiple(RoundArgs(x, y))

SpecRound == InitAlloc /\ [][NextRound]_vars

(***************************************************************************)
(* Properties of configure_mpu (Spec).                                     *)
(***************************************************************************)
OtherProc(p) == CHOOSE q \in Procs : q # p

\* The descriptor written by configure_mpu for logical index i, and the
\* slot of the flushed configuration it was written from.
Flushed(i) == configs[last.proc].regions[i]

\* C1: after configure_mpu(config), whatever the registers held before,
\* descriptor i+1 is valid exactly when config.regions[i] holds a Region, and
\* then its start and end fields are region.start >> 5 and region.end >> 5;
\* a descriptor that was valid for another configuration and is absent from
\* this one is invalid.
C1_DescriptorsMirrorConfig ==
    last.op = "configure_mpu" =>
        \A i \in 0..10 :
            /\ (regs.rgds[i + 1].word3.VLD = 1) <=> IsSome(Flushed(i))
            /\ IsSome(Flushed(i)) =>
                  /\ regs.rgds[i + 1].word0.SRTADDR = Unwrap(Flushed(i)).start \div 32
                  /\ regs.rgds[i + 1].word1.ENDADDR = Unwrap(Flushed(i)).end \div 32

\* C1 witness: configure_mpu has flushed a configuration that holds a Region,
\* and a descriptor still carrying what the flush of the other process's
\* configuration wrote (start, permission, SameAsUserMode) is now invalid
\* because this configuration has no Region there.
C1_Witness ==
    /\ last.op = "configure_mpu"
    /\ \E i \in 0..10 : IsSome(Flushed(i))
    /\ \E j \in 0..10 :
          /\ Flushed(j) = None
          /\ IsSome(configs[OtherProc(last.proc)].regions[j])
          /\ regs.rgds[j + 1].word0.SRTADDR
                = Unwrap(configs[OtherProc(last.proc)].regions[j]).start \div 32
          /\ regs.rgds[j + 1].word2.M0SM = SameAsUserMode
          /\ regs.rgds[j + 1].word3.VLD = 0

\* C2 as stated: for every Region of the flushed configuration the
\* access-control word grants supervisor mode read-write-execute and user
\* mode the Region's 3-bit permission.
C2_SupervisorFullAccess ==
    last.op = "configure_mpu" =>
        \A i \in 0..10 :
            IsSome(Flushed(i)) =>
                /\ regs.rgds[i + 1].word2.M0SM = ReadWriteExecute
                /\ regs.rgds[i + 1].word2.M0UM = Unwrap(Flushed(i)).permissions

\* C2 amended: for every Region of the flushed configuration the
\* access-control word has its supervisor field set to SameAsUserMode
\* (supervisor mode gets the user-mode permission through this descriptor),
\* user mode is granted exactly the Region's 3-bit permission, and no other
\* bit of the word is set.
C2_SupervisorSameAsUser ==
    last.op = "configure_mpu" =>
        \A i \in 0..10 :
            IsSome(Flushed(i)) =>
                /\ regs.rgds[i + 1].word2.M0SM = SameAsUserMode
                /\ regs.rgds[i + 1].word2.M0UM = Unwrap(Flushed(i)).permissions
                /\ regs.rgds[i + 1].word2.M0PE = 0
                /\ regs.rgds[i + 1].word2.MX = 0

\* C2 witness: a flushed configuration holds an execute-only Region and a
\* read-write Region, each in its descriptor.
C2_Witness ==
    /\ last.op = "configure_mpu"
    /\ \E i \in 0..10 :
          /\ IsSome(Flushed(i))
          /\ Unwrap(Flushed(i)).permissions = 1
          /\ regs.rgds[i + 1].word2.M0UM = 1
    /\ \E i \in 0..10 :
          /\ IsSome(Flushed(i))
          /\ Unwrap(Flushed(i)).permissions = 6
          /\ regs.rgds[i + 1].word2.M0UM = 6

\* C3: every configure_mpu call leaves the alternate access control of
\* descriptor 0 with its user-mode field cleared and its supervisor field at
\* ReadWriteExecute, and leaves the start, end and valid words of descriptor
\* 0 as they were.
C3_DescriptorZero ==
    [][last'.op = "configure_mpu" =>
          /\ regs'.rgdaacs[0].M0UM = 0
          /\ regs'.rgdaacs[0].M0SM = ReadWriteExecute
          /\ regs'.rgds[0].word0 = regs.rgds[0].word0
          /\ regs'.rgds[0].word1 = regs.rgds[0].word1
          /\ regs'.rgds[0].word3 = regs.rgds[0].word3]_vars

\* C3 witness: configure_mpu has flushed a configuration holding a Region
\* (the loop ran up to logical index 10, descriptor 11 is invalid) over
\* registers whose descriptor 0 was valid with user access; descriptor 0 is
\* still valid and the other fields of its alternate access control are kept.
C3_Witness ==
    /\ last.op = "configure_mpu"
    /\ regs.rgdaacs[0].M0UM = 0
    /\ regs.rgdaacs[0].MX # 0
    /\ regs.rgds[0].word3.VLD = 1
    /\ regs.rgds[11].word3.VLD = 0
    /\ IsSome(Flushed(0))

(***************************************************************************)
(* Properties of the allocator (SpecArith, SpecFill).  RoundUp32 and Max   *)
(* are the mathematical functions, without wrap-around.                    *)
(***************************************************************************)
RoundUp32(x) == ((x + 31) \div 32) * 32

Max(a, b) == IF a < b THEN b ELSE a

AppRegion(config) == config.regions[APP_MEMORY_INDEX]

\* C4 as stated: once allocate_app_memory_region has succeeded (the
\* application-memory index holds its Region, which starts at memory_start),
\* update_app_memory_region(app_break, kernel_break, perm) with
\* round_up(app_break, 32) <= kernel_break succeeds and replaces that Region
\* with [memory_start, round_up(app_break, 32)) carrying the encoded perm.
C4_UpdateSucceeds ==
    [][(/\ last'.op = "update_app_memory_region"
        /\ IsSome(AppRegion(configs[last'.proc]))
        /\ RoundUp32(last'.args.app_break) <= last'.args.kernel_break)
       => /\ last'.outcome = "Ok"
          /\ AppRegion(configs'[last'.proc])
               = Some([start |-> Unwrap(AppRegion(configs[last'.proc])).start,
                       end |-> RoundUp32(last'.args.app_break),
                       permissions |-> PermissionBits(last'.args.perm)])]_vars

\* Ordinary slots: every logical index but the application-memory index.
OrdinarySlots == (0..10) \ {1}

TableFull(config) == \A i \in OrdinarySlots : IsSome(config.regions[i])

\* No u32 addition of allocate_region overflows on arguments a.
RegionNoOverflow(a) ==
    /\ RoundUp32(a.start) + RoundUp32(a.min) < Word
    /\ a.start + a.size < Word

\* C5: once allocate_region has filled the ten ordinary slots, every further
\* allocate_region call returns no region and changes nothing, whatever its
\* arguments and whether or not the application-memory index is occupied;
\* while an ordinary slot is free, a call whose span is large enough (and
\* whose arithmetic does not overflow) succeeds.
C5_TableFullAfterTen ==
    [][last'.op = "allocate_region" =>
          /\ TableFull(configs[last'.proc]) =>
                /\ last'.outcome # "Some"
                /\ configs' = configs
          /\ (/\ ~TableFull(configs[last'.proc])
              /\ RegionNoOverflow(last'.args)
              /\ RoundUp32(last'.args.start) + RoundUp32(last'.args.min)
                    <= last'.args.start + last'.args.size)
             => last'.outcome = "Some"]_vars

\* C5 witness: allocate_region with a 1 MiB span has just returned None on a
\* table whose ten ordinary slots are full and whose application-memory
\* index is empty.
C5_Witness ==
    /\ last.op = "allocate_region"
    /\ last.outcome = "None"
    /\ last.args.size = 1048576
    /\ TableFull(configs[last.proc])
    /\ AppRegion(configs[last.proc]) = None

\* C6: when an ordinary slot is free and no u32 addition overflows,
\* allocate_region fails exactly when
\* round_up(start, 32) + round_up(min_size, 32) > start + size.
C6_FailsIffTooSmall ==
    [][(/\ last'.op = "allocate_region"
        /\ ~TableFull(configs[last'.proc])
        /\ RegionNoOverflow(last'.args))
       => /\ last'.outcome \in {"Some", "None"}
          /\ (last'.outcome = "None")
               <=> (RoundUp32(last'.args.start) + RoundUp32(last'.args.min)
                      > last'.args.start + last'.args.size)]_vars

\* C6 witness: an exact fit from an unaligned start has succeeded.
C6_Witness ==
    /\ last.op = "allocate_region"
    /\ last.outcome = "Some"
    /\ RegionNoOverflow(last.args)
    /\ last.args.start % 32 # 0
    /\ RoundUp32(last.args.start) + RoundUp32(last.args.min)
          = last.args.start + last.args.size

\* What C7 says of a successful allocate_region step.
ReturnedRegionOk ==
    /\ last'.val[1] % 32 = 0
    /\ last'.val[2] % 32 = 0
    /\ last'.val[1] >= last'.args.start
    /\ last'.val[2] >= last'.args.min
    /\ last'.val[1] + last'.val[2] <= last'.args.start + last'.args.size
    /\ \E i \in OrdinarySlots :
          /\ configs[last'.proc].regions[i] = None
          /\ configs'[last'.proc].regions[i]
                = Some([start |-> last'.val[1],
                        end |-> last'.val[1] + last'.val[2],
                        permissions |-> PermissionBits(last'.args.perm)])

\* C7 as stated: every successful allocate_region returns (start, size),
\* both multiples of 32, with start >= the unallocated start, size >= the
\* requested size and start + size <= the end of the unallocated span, and
\* stores exactly the Region [start, start + size).
C7_ReturnedRegion ==
    [][(last'.op = "allocate_region" /\ last'.outcome = "Some")
       => ReturnedRegionOk]_vars

\* C7 amended: the same, for every successful allocate_region call in which
\* no u32 addition overflows.
C7_ReturnedRegionNoOverflow ==
    [][(/\ last'.op = "allocate_region"
        /\ last'.outcome = "Some"
        /\ RegionNoOverflow(last'.args))
       => ReturnedRegionOk]_vars

\* C7 witness: a successful call whose start and size were both rounded.
C7_Witness ==
    /\ last.op = "allocate_region"
    /\ last.outcome = "Some"
    /\ RegionNoOverflow(last.args)
    /\ last.val[1] > last.args.start
    /\ last.val[2] > last.args.min
    /\ last.args.min > 0

\* C8 as stated: every Region stored in a configuration has start < end and
\* start and end multiples of 32.
C8_RegionsWellFormed ==
    \A p \in Procs : \A i \in 0..10 :
        IsSome(configs[p].regions[i]) =>
            /\ Unwrap(configs[p].regions[i]).start < Unwrap(configs[p].regions[i]).end
            /\ Unwrap(configs[p].regions[i]).start % 32 = 0
            /\ Unwrap(configs[p].regions[i]).end % 32 = 0

\* The total span allocate_app_memory_region computes on arguments a, when
\* nothing overflows.
SpanSize(a) ==
    IF RoundUp32(a.app) + a.kernel > RoundUp32(Max(a.min, a.app + a.kernel))
    THEN RoundUp32(Max(a.min, a.app + a.kernel)) + 32
    ELSE RoundUp32(Max(a.min, a.app + a.kernel))

\* No u32 addition of allocate_app_memory_region overflows on arguments a.
AppNoOverflow(a) ==
    /\ a.app + a.kernel < Word
    /\ RoundUp32(a.start) + SpanSize(a) < Word
    /\ a.start + a.size < Word

\* What C9 says of a successful allocate_app_memory_region step.
AppAllocationOk ==
    /\ last'.val[1] = RoundUp32(last'.args.start)
    /\ last'.val[2] % 32 = 0
    /\ last'.val[2] >= Max(last'.args.min, last'.args.app + last'.args.kernel)
    /\ AppRegion(configs'[last'.proc])
          = Some([start |-> last'.val[1],
                  end |-> last'.val[1] + RoundUp32(last'.args.app),
                  permissions |-> PermissionBits(last'.args.perm)])
    /\ \A i \in OrdinarySlots :
          configs'[last'.proc].regions[i] = configs[last'.proc].regions[i]
    /\ \A q \in Procs \ {last'.proc} : configs'[q] = configs[q]

\* C9 as stated: a successful allocate_app_memory_region returns
\* memory_start = round_up(unallocated_start, 32) and a memory_size that is a
\* multiple of 32 and >= max(min_memory_size, app + kernel), stores
\* [memory_start, memory_start + round_up(app, 32)) at the application-memory
\* index and leaves every other slot unchanged.
C9_AppAllocation ==
    [][(last'.op = "allocate_app_memory_region" /\ last'.outcome = "Some")
       => AppAllocationOk]_vars

\* C9 amended: the same, for every successful allocate_app_memory_region
\* call in which no u32 addition overflows.
C9_AppAllocationNoOverflow ==
    [][(/\ last'.op = "allocate_app_memory_region"
        /\ last'.outcome = "Some"
        /\ AppNoOverflow(last'.args))
       => AppAllocationOk]_vars

\* C9 witness: a successful call from an unaligned start, with the span
\* rounded beyond the sizes asked for, on a table that holds an ordinary
\* Region.
C9_Witness ==
    /\ last.op = "allocate_app_memory_region"
    /\ last.outcome = "Some"
    /\ AppNoOverflow(last.args)
    /\ last.args.start % 32 # 0
    /\ last.val[2] > Max(last.args.min, last.args.app + last.args.kernel)
    /\ \E i \in OrdinarySlots : IsSome(configs[last.proc].regions[i])

\* C10 as stated: after every successful allocate_app_memory_region the
\* protected Region ends at or before the kernel-reserved tail:
\* region_end + kernel <= memory_start + memory_size, for all sizes.
C10_KernelTailClear ==
    (last.op = "allocate_app_memory_region" /\ last.outcome = "Some")
    => Unwrap(AppRegion(configs[last.proc])).end + last.args.kernel
          <= last.val[1] + last.val[2]

\* C10 amended: the same, for every successful allocate_app_memory_region
\* call in which no u32 addition overflows.
C10_KernelTailClearNoOverflow ==
    (/\ last.op = "allocate_app_memory_region"
     /\ last.outcome = "Some"
     /\ AppNoOverflow(last.args))
    => Unwrap(AppRegion(configs[last.proc])).end + last.args.kernel
          <= last.val[1] + last.val[2]

\* C10 witness: a successful call in which the bump was taken and was
\* needed: without it the Region would reach into the kernel-reserved tail.
C10_Witness ==
    /\ last.op = "allocate_app_memory_region"
    /\ last.outcome = "Some"
    /\ AppNoOverflow(last.args)
    /\ last.val[2] = RoundUp32(Max(last.args.min, last.args.app + last.args.kernel)) + 32
    /\ Unwrap(AppRegion(configs[last.proc])).end + last.args.kernel
          > last.val[1] + last.val[2] - 32

\* What C11 says of an allocate_app_memory_region step: it fails exactly
\* when memory_start + memory_size exceeds the end of the unallocated span,
\* a returned span lies inside the unallocated span, and a failing call
\* leaves every configuration as it was.
AppFitOk ==
    /\ (last'.outcome # "Some")
          <=> (RoundUp32(last'.args.start) + SpanSize(last'.args)
                 > last'.args.start + last'.args.size)
    /\ last'.outcome = "Some" =>
          /\ last'.val[1] >= last'.args.start
          /\ last'.val[1] + last'.val[2] <= last'.args.start + last'.args.size
    /\ last'.outcome # "Some" => configs' = configs

\* C11 as stated: allocate_app_memory_region fails exactly when
\* memory_start + memory_size (rounded, bumped) exceeds
\* unallocated_start + unallocated_size; on success the returned span lies
\* inside the unallocated span; on failure the configuration is unchanged.
C11_AppFit ==
    [][last'.op = "allocate_app_memory_region" => AppFitOk]_vars

\* C11 amended: the same, for every allocate_app_memory_region call in
\* which no u32 addition overflows.
C11_AppFitNoOverflow ==
    [][(last'.op = "allocate_app_memory_region" /\ AppNoOverflow(last'.args))
       => AppFitOk]_vars

\* C11 witness: a call has failed by 32 bytes only because of the bump, on
\* a table whose application-memory index still holds the Region of an
\* earlier call with other sizes.
C11_Witness ==
    /\ last.op = "allocate_app_memory_region"
    /\ last.outcome = "None"
    /\ AppNoOverflow(last.args)
    /\ RoundUp32(last.args.start) + SpanSize(last.args)
          = last.args.start + last.args.size + 32
    /\ SpanSize(last.args)
          = RoundUp32(Max(last.args.min, last.args.app + last.args.kernel)) + 32
    /\ IsSome(AppRegion(configs[last.proc]))
    /\ Unwrap(AppRegion(configs[last.proc])).end
          # RoundUp32(last.args.start) + RoundUp32(last.args.app)

\* C12: update_app_memory_region returns Err whenever
\* round_up(app_break, 32) > kernel_break, in every reachable
\* configuration, and that call leaves the Region at the
\* application-memory index as it was.
C12_UpdateFailsPastKernelBreak ==
    [][(/\ last'.op = "update_app_memory_region"
        /\ RoundUp32(last'.args.app_break) > last'.args.kernel_break)
       => /\ last'.outcome = "Err"
          /\ AppRegion(configs'[last'.proc]) = AppRegion(configs[last'.proc])]_vars

\* C12 witness: an update whose rounded break lies above the kernel break
\* has failed on a configuration that holds an application-memory Region.
C12_Witness ==
    /\ last.op = "update_app_memory_region"
    /\ RoundUp32(last.args.app_break) > last.args.kernel_break
    /\ last.outcome = "Err"
    /\ IsSome(AppRegion(configs[last.proc]))

\* C13: on a configuration whose application-memory index holds no Region,
\* update_app_memory_region returns Err for all arguments and changes no
\* slot of any configuration (in particular it creates no Region at the
\* index).
C13_UpdateNeedsRegion ==
    [][(/\ last'.op = "update_app_memory_region"
        /\ AppRegion(configs[last'.proc]) = None)
       => /\ last'.outcome = "Err"
          /\ configs' = configs]_vars

\* C13 witness: an update has failed on a configuration with an ordinary
\* Region stored but nothing at the application-memory index.
C13_Witness ==
    /\ last.op = "update_app_memory_region"
    /\ last.outcome = "Err"
    /\ AppRegion(configs[last.proc]) = None
    /\ IsSome(configs[last.proc].regions[0])

\* C14: update_app_memory_region is idempotent: a call that directly
\* follows a call with the same (app_break, kernel_break, permission) on the
\* same configuration gives the same result and leaves the configuration as
\* the first call left it.
C14_UpdateIdempotent ==
    [][(/\ last.op = "update_app_memory_region"
        /\ last'.op = "update_app_memory_region"
        /\ last'.proc = last.proc
        /\ last'.args = last.args)
       => /\ last'.outcome = last.outcome
          /\ configs' = configs]_vars

\* C14 witness: an update with a break inside the kernel break has been
\* called on a configuration holding an empty application-memory Region
\* [0, 0), the case in which a repeated call could move the end again.
C14_Witness ==
    /\ last.op = "update_app_memory_region"
    /\ RoundUp32(last.args.app_break) <= last.args.kernel_break
    /\ last.args.app_break > 0
    /\ IsSome(AppRegion(configs[last.proc]))
    /\ Unwrap(AppRegion(configs[last.proc])).start = 0

(***************************************************************************)
(* Frame properties of the region table (SpecFill).                        *)
(***************************************************************************)
\* C15: the slot at the application-memory index changes only in a step of
\* allocate_app_memory_region or update_app_memory_region; allocate_region
\* leaves it as it was, and with index 1 empty and the ten ordinary slots
\* full allocate_region does not take index 1 as free: it fails.
C15_AppIndexReserved ==
    [][/\ \A p \in Procs :
             AppRegion(configs'[p]) # AppRegion(configs[p])
                => last'.op \in {"allocate_app_memory_region",
                                 "update_app_memory_region"}
       /\ last'.op = "allocate_region" =>
             /\ AppRegion(configs'[last'.proc]) = AppRegion(configs[last'.proc])
             /\ (TableFull(configs[last'.proc])
                   /\ AppRegion(configs[last'.proc]) = None)
                => last'.outcome # "Some"]_vars

\* C15 witness: allocate_region has just filled the last ordinary slot
\* while the application-memory index is still empty.
C15_Witness ==
    /\ last.op = "allocate_region"
    /\ last.outcome = "Some"
    /\ TableFull(configs[last.proc])
    /\ AppRegion(configs[last.proc]) = None

\* C19: a successful allocate_region stores a Region at the lowest empty
\* index among {0, 2, 3, ..., 10}; that slot was empty before, and every
\* other slot of every table is unchanged.
C19_LowestFreeSlot ==
    [][(last'.op = "allocate_region" /\ last'.outcome = "Some") =>
          \E i \in OrdinarySlots :
             /\ configs[last'.proc].regions[i] = None
             /\ \A j \in OrdinarySlots :
                   j < i => IsSome(configs[last'.proc].regions[j])
             /\ IsSome(configs'[last'.proc].regions[i])
             /\ configs' = [configs EXCEPT ![last'.proc].regions[i] =
                              configs'[last'.proc].regions[i]]]_vars

\* C19 witness: a successful allocate_region has stored at index 2, passing
\* over the empty application-memory index, with index 3 still free.
C19_Witness ==
    /\ last.op = "allocate_region"
    /\ last.outcome = "Some"
    /\ IsSome(configs[last.proc].regions[0])
    /\ AppRegion(configs[last.proc]) = None
    /\ IsSome(configs[last.proc].regions[2])
    /\ configs[last.proc].regions[3] = None

\* C20: an allocate_region call that returns None leaves every
\* configuration unchanged, and if a slot was free before the call a
\* following call with a sufficient span succeeds.
C20_FailedAllocationKeepsTable ==
    [][(last'.op = "allocate_region" /\ last'.outcome = "None") =>
          /\ configs' = configs
          /\ ~TableFull(configs[last'.proc]) =>
                allocate_region(configs'[last'.proc],
                                RegionArgs(0, 1048576, 32, "ReadOnly")).outcome
                   = "Some"]_vars

\* C20 witness: an allocation has failed for lack of space on a table that
\* holds Regions and still has a free ordinary slot.
C20_Witness ==
    /\ last.op = "allocate_region"
    /\ last.outcome = "None"
    /\ last.args.size = 16
    /\ IsSome(configs[last.proc].regions[0])
    /\ ~TableFull(configs[last.proc])

(***************************************************************************)
(* Idempotence and frame of the register operations (Spec).                *)
(***************************************************************************)
\* C16: configure_mpu changes no configuration table, and flushing the same
\* configuration again into the registers it has just written leaves the
\* register block as the first flush left it.
C16_ConfigureIdempotent ==
    [][last'.op = "configure_mpu" =>
          /\ configs' = configs
          /\ configure_mpu(regs', configs'[last'.proc]) = regs']_vars

\* C16 witness: the configuration of p2, holding an ordinary Region and an
\* application-memory Region, has been flushed over registers that were
\* written for p1 or by earlier software.
C16_Witness ==
    /\ last.op = "configure_mpu"
    /\ last.proc = "p2"
    /\ IsSome(Flushed(0))
    /\ IsSome(Flushed(APP_MEMORY_INDEX))
    /\ regs.rgds[2].word3.VLD = 1
    /\ regs.rgds[3].word0.SRTADDR # 0
    /\ regs.rgds[3].word3.VLD = 0

\* C17: enable_mpu sets and disable_mpu clears the VLD bit of CESR and
\* change nothing else: the other fields of CESR, every region descriptor,
\* every alternate access control word and every configuration table stay
\* as they were; no other operation changes the bit, so the MPU is enabled
\* exactly when the most recent of the two calls was enable_mpu.
C17_EnableDisableFrame ==
    [][/\ last'.op = "enable_mpu" =>
             /\ regs' = [regs EXCEPT !.cesr.VLD = 1]
             /\ configs' = configs
       /\ last'.op = "disable_mpu" =>
             /\ regs' = [regs EXCEPT !.cesr.VLD = 0]
             /\ configs' = configs
       /\ regs'.cesr.VLD # regs.cesr.VLD
             => last'.op \in {"enable_mpu", "disable_mpu"}]_vars

\* C17 witness: disable_mpu has cleared the bit of a control register whose
\* other fields are non-zero, after a flush had written descriptor 1 from a
\* stored Region.
C17_Witness ==
    /\ last.op = "disable_mpu"
    /\ regs.cesr.VLD = 0
    /\ regs.cesr.NRGD = 1
    /\ regs.cesr.SPERR = 3
    /\ \E p \in Procs :
          /\ IsSome(configs[p].regions[0])
          /\ regs.rgds[1].word3.VLD = 1
          /\ regs.rgds[1].word0.SRTADDR = Unwrap(configs[p].regions[0]).start \div 32

(***************************************************************************)
(* round_up_to_nearest_multiple (SpecRound).                               *)
(***************************************************************************)
\* The three properties C18 states of a value returned for (x, y).
RoundedUp(x, y, r) ==
    /\ r % y = 0
    /\ r >= x
    /\ r - x < y

\* C18 as stated: for all x and all y > 0 of the u32 range,
\* round_up_to_nearest_multiple(x, y) returns a multiple of y that is >= x
\* and exceeds x by less than y.
C18_RoundUp ==
    [][last'.op = "round_up_to_nearest_multiple" =>
          /\ last'.outcome = "Value"
          /\ RoundedUp(last'.args.x, last'.args.y, last'.val[1])]_vars

\* C18 amended: the same for all x and y > 0 such that x is a multiple of y
\* or x + y does not overflow the u32 range.
C18_RoundUpNoOverflow ==
    [][(/\ last'.op = "round_up_to_nearest_multiple"
        /\ \/ last'.args.x % last'.args.y = 0
           \/ last'.args.x + last'.args.y < Word)
       => /\ last'.outcome = "Value"
          /\ RoundedUp(last'.args.x, last'.args.y, last'.val[1])]_vars

\* C18 witness: a value near the top of the range that is not a multiple of
\* 3 has been rounded up to a multiple of 3 without overflow.
C18_Witness ==
    /\ last.op = "round_up_to_nearest_multiple"
    /\ last.outcome = "Value"
    /\ last.args.y = 3
    /\ last.args.x > Word - 40
    /\ last.args.x % 3 # 0
    /\ last.args.x + 3 < Word
    /\ last.val[1] > last.args.x

====
